---------------------------- MODULE Spec2Model ----------------------------
(***************************************************************************)
(* A model of the baccarat shoe simulator of src/baccarat_sim.py.          *)
(*                                                                         *)
(* Two specifications share the module:                                    *)
(*   Spec      the batch run main -> simulate_many_shoes -> simulate_shoe  *)
(*             -> play_hand, executed twice with the same arguments (the   *)
(*             second execution is what reproducibility compares with);    *)
(*   SpecHand  a direct call play_hand(shoe, pos) on an arbitrary list.    *)
(*                                                                         *)
(* Python lists are sequences; a Python index i is the TLA+ index i + 1.   *)
(* An Optional[int] is a set: {} is None and {n} is the integer n.         *)
(***************************************************************************)
EXTENDS Integers, Sequences, FiniteSets

VARIABLES
    num_shoes,      \* simulate_many_shoes argument
    num_decks,      \* simulate_many_shoes / simulate_shoe argument
    burn_cards,     \* simulate_many_shoes / simulate_shoe argument
    max_hands,      \* Optional[int]: {} or {n}
    rng_seed,       \* Optional[int]: the master seed, {} or {n}
    rng,            \* simulate_many_shoes: state of the master generator
    shoe_id,        \* simulate_many_shoes: the for loop's variable
    seed,           \* simulate_many_shoes: the child seed of the current shoe
    all_results,    \* simulate_many_shoes: the flat list
    shoe,           \* simulate_shoe: the built shoe (play_hand's argument in SpecHand)
    pos,            \* simulate_shoe: the cursor (play_hand's argument in SpecHand)
    hand_number,    \* simulate_shoe: number of the next hand
    results,        \* simulate_shoe: the hands of the current shoe
    ret,            \* SpecHand: what the direct call of play_hand produced
    run,            \* which execution of the batch this is (1 or 2)
    first_output,   \* the list the first execution returned
    pc              \* control point

vars == <<num_shoes, num_decks, burn_cards, max_hands, rng_seed, rng, shoe_id,
          seed, all_results, shoe, pos, hand_number, results, ret, run,
          first_output, pc>>

(***************************************************************************)
(* Program constants.                                                      *)
(***************************************************************************)
NumRanks == 13
NumSuits == 4
WorstCaseHand == 6
MaxChildSeed == 1000000000

(***************************************************************************)
(* Bounds of the model.                                                    *)
(***************************************************************************)
MaxShoes == 2
MaxDecks == 2
MaxHands == 1
MaxSeed == 0
MaxEntropy == 1
MaxHandRank == 10
MaxPos == 1
MaxBurn == 1

Min(a, b) == IF a <= b THEN a ELSE b
Max(a, b) == IF a >= b THEN a ELSE b

(***************************************************************************)
(* Hand evaluator.                                                         *)
(***************************************************************************)
baccarat_value(rank) == IF rank < 10 THEN rank ELSE 0

\* sum(baccarat_value(c) for c in cards[:n])
RECURSIVE SumValues(_, _)
SumValues(cards, n) ==
    IF n = 0 THEN 0 ELSE SumValues(cards, n - 1) + baccarat_value(cards[n])

\* mutant: the sum is not reduced modulo 10
hand_total_unreduced(cards) == SumValues(cards, Len(cards))

hand_total(cards) == SumValues(cards, Len(cards)) % 10

(***************************************************************************)
(* Hand dealer.  A call that raises IndexError has raised = TRUE.          *)
(***************************************************************************)
\* mutant: the cursor is not advanced
deal_card_stuck(sh, p) ==
    IF p >= Len(sh)
    THEN [raised |-> TRUE, c |-> 0, pos |-> p]
    ELSE [raised |-> FALSE, c |-> sh[p + 1], pos |-> p]

\* mutant: the end of the shoe is signalled one card early
deal_card_early(sh, p) ==
    IF p + 1 >= Len(sh)
    THEN [raised |-> TRUE, c |-> 0, pos |-> p]
    ELSE [raised |-> FALSE, c |-> sh[p + 1], pos |-> p + 1]

\* mutant: the cursor moves two places for one card
deal_card_skips(sh, p) ==
    IF p >= Len(sh)
    THEN [raised |-> TRUE, c |-> 0, pos |-> p]
    ELSE [raised |-> FALSE, c |-> sh[p + 1], pos |-> p + 2]

deal_card(sh, p) ==
    IF p >= Len(sh)
    THEN [raised |-> TRUE, c |-> 0, pos |-> p]
    ELSE [raised |-> FALSE, c |-> sh[p + 1], pos |-> p + 1]

\* c, pos = deal_card(shoe, pos); p_cards.append(c)
deal_player(h, sh) ==
    IF h.raised THEN h
    ELSE LET d == deal_card(sh, h.pos)
         IN IF d.raised THEN [h EXCEPT !.raised = TRUE]
            ELSE [h EXCEPT !.p_cards = Append(@, d.c), !.pos = d.pos]

\* c, pos = deal_card(shoe, pos); b_cards.append(c)
deal_banker(h, sh) ==
    IF h.raised THEN h
    ELSE LET d == deal_card(sh, h.pos)
         IN IF d.raised THEN [h EXCEPT !.raised = TRUE]
            ELSE [h EXCEPT !.b_cards = Append(@, d.c), !.pos = d.pos]

\* mutant: both Player cards dealt before Banker's
initial_deal_players_first(sh, p) ==
    deal_banker(
        deal_banker(
            deal_player(
                deal_player([p_cards |-> <<>>, b_cards |-> <<>>,
                             pos |-> p, raised |-> FALSE], sh),
                sh),
            sh),
        sh)

\* initial deal: P1, B1, P2, B2; h1 .. h4 are the hand after each card
initial_deal(sh, p) ==
    CHOOSE h4 \in
        {deal_banker(h3, sh) :
            h3 \in {deal_player(h2, sh) :
                h2 \in {deal_banker(h1, sh) :
                    h1 \in {deal_player([p_cards |-> <<>>, b_cards |-> <<>>,
                                         pos |-> p, raised |-> FALSE], sh)}}}} : TRUE

\* mutant: only Player's total is looked at
natural_check_player_only(p_total, b_total) == p_total \in {8, 9}

\* mutant: a total of 7 taken for a natural
natural_check_from_seven(p_total, b_total) ==
    p_total \in {7, 8, 9} \/ b_total \in {7, 8, 9}

natural_check(p_total, b_total) == p_total \in {8, 9} \/ b_total \in {8, 9}

\* mutant: Player also draws on 6
player_draws_on_six(p_total) == p_total <= 6

player_draws(p_total) == p_total <= 5

\* mutant: the exception of the total-3 row put on 9 instead of 8
banker_draws_after_third_nine(b_total, p3_val) ==
    IF b_total <= 2 THEN TRUE
    ELSE IF b_total = 3 /\ p3_val # 9 THEN TRUE
    ELSE IF b_total = 4 /\ p3_val \in {2, 3, 4, 5, 6, 7} THEN TRUE
    ELSE IF b_total = 5 /\ p3_val \in {4, 5, 6, 7} THEN TRUE
    ELSE IF b_total = 6 /\ p3_val \in {6, 7} THEN TRUE
    ELSE FALSE

\* the if / elif chain on Banker's total after Player's third card
banker_draws_after_third(b_total, p3_val) ==
    IF b_total <= 2 THEN TRUE
    ELSE IF b_total = 3 /\ p3_val # 8 THEN TRUE
    ELSE IF b_total = 4 /\ p3_val \in {2, 3, 4, 5, 6, 7} THEN TRUE
    ELSE IF b_total = 5 /\ p3_val \in {4, 5, 6, 7} THEN TRUE
    ELSE IF b_total = 6 /\ p3_val \in {6, 7} THEN TRUE
    ELSE FALSE

\* mutant: Banker also draws on 6 after Player stands
banker_draws_after_stand_on_six(b_total) == b_total <= 6

banker_draws_after_stand(b_total) == b_total <= 5

\* the else branch of the natural check: Player's action, then Banker's
third_cards(h4, sh, p_total) ==
    IF player_draws(p_total)
    THEN LET h5 == deal_player(h4, sh)
         IN IF h5.raised THEN h5
            ELSE LET p3_val == baccarat_value(h5.p_cards[Len(h5.p_cards)])
                     b_total == hand_total(h5.b_cards)
                 IN IF banker_draws_after_third(b_total, p3_val)
                    THEN deal_banker(h5, sh)
                    ELSE h5
    ELSE LET b_total == hand_total(h4.b_cards)
         IN IF banker_draws_after_stand(b_total)
            THEN deal_banker(h4, sh)
            ELSE h4

\* mutant: >= for >, so a tie goes to Player
decide_winner_no_tie(p_total, b_total) ==
    IF p_total >= b_total THEN "P"
    ELSE IF b_total > p_total THEN "B"
    ELSE "T"

decide_winner(p_total, b_total) ==
    IF p_total > b_total THEN "P"
    ELSE IF b_total > p_total THEN "B"
    ELSE "T"

NoResult ==
    [shoe_id |-> -1, hand_number |-> -1, player_cards |-> <<>>,
     banker_cards |-> <<>>, player_total |-> 0, banker_total |-> 0,
     winner |-> "T", natural |-> FALSE]

\* the hand from the natural check on: h4 is the hand after the initial deal
after_initial_deal(h4, sh) ==
    LET p_total == hand_total(h4.p_cards)
        b_total == hand_total(h4.b_cards)
        natural == natural_check(p_total, b_total)
    IN CHOOSE out \in
          {IF h.raised
           THEN [raised |-> TRUE, res |-> NoResult, pos |-> h.pos]
           ELSE
           LET p_final == IF natural THEN p_total ELSE hand_total(h.p_cards)
               b_final == IF natural THEN b_total ELSE hand_total(h.b_cards)
           IN [raised |-> FALSE,
               res |-> [shoe_id |-> -1,
                        hand_number |-> -1,
                        player_cards |-> h.p_cards,
                        banker_cards |-> h.b_cards,
                        player_total |-> p_final,
                        banker_total |-> b_final,
                        winner |-> decide_winner(p_final, b_final),
                        natural |-> natural],
               pos |-> h.pos]
           : h \in {IF natural THEN h4 ELSE third_cards(h4, sh, p_total)}} : TRUE

\* The hand after each phase is a value computed once: h4 after the initial
\* deal, h after the third cards.
play_hand(sh, p) ==
    CHOOSE out \in
        {IF h4.raised
         THEN [raised |-> TRUE, res |-> NoResult, pos |-> h4.pos]
         ELSE after_initial_deal(h4, sh)
         : h4 \in {initial_deal(sh, p)}} : TRUE

(***************************************************************************)
(* random.Random.  The generator is the standard library's, not this       *)
(* repository's: what the program relies on is that a generator is a       *)
(* deterministic function of its seed, that a None seed takes the state    *)
(* from system entropy, and that shuffle is the Fisher-Yates exchange      *)
(* driven by the generator.  A 16-bit linear congruential generator        *)
(* stands for the Mersenne Twister.                                        *)
(***************************************************************************)
RngModulus == 65536
RngMultiplier == 25173
RngIncrement == 13849
RngShift == 16

rng_step(s) == (RngMultiplier * s + RngIncrement) % RngModulus

\* mutant: the seed is ignored, every generator starts from system entropy
Random_unseeded(seed_opt, entropy) == entropy % RngModulus

\* random.Random(seed): the state of the new generator
Random(seed_opt, entropy) ==
    IF seed_opt = {}
    THEN entropy % RngModulus
    ELSE (CHOOSE n \in seed_opt : TRUE) % RngModulus

\* the value the generator in state s draws below n; its next state is rng_step(s)
rand_below(s, n) == (rng_step(s) \div RngShift) % n

\* rng.randint(a, b)
randint(s, a, b) == a + rand_below(s, b - a + 1)

\* mutant: x[i] = x[j] without the exchange
swap_overwrite(x, i, j) == [x EXCEPT ![i + 1] = x[j + 1]]

\* x[i], x[j] = x[j], x[i]  (Python indices)
swap(x, i, j) == [x EXCEPT ![i + 1] = x[j + 1], ![j + 1] = x[i + 1]]

\* one iteration of shuffle's loop: j = randbelow(i + 1); x[i], x[j] = x[j], x[i]
shuffle_step(st, i) ==
    [x |-> swap(st.x, i, rand_below(st.s, i + 1)), s |-> rng_step(st.s)]

\* the iterations i = hi, hi - 1, ..., lo of the loop, from the list and the
\* generator st.  The range is halved, and the list is looked at before the
\* range is entered, to keep the evaluation shallow.
RECURSIVE shuffle_loop(_, _, _)
shuffle_from(st, hi, lo) ==
    IF hi < lo \/ st.x = <<>> THEN st
    ELSE IF hi = lo THEN shuffle_step(st, hi)
    ELSE LET mid == (hi + lo) \div 2
         IN shuffle_loop(shuffle_loop(st, hi, mid + 1), mid, lo)

\* shuffle_from on the values of its arguments, each computed once
shuffle_loop(st, hi, lo) ==
    CHOOSE out \in {shuffle_from(v, h, l) : v \in {st}, h \in {hi}, l \in {lo}} : TRUE

\* for i in reversed(range(1, len(x))): ...
shuffle(x, s) == shuffle_loop([x |-> x, s |-> s], Len(x) - 1, 1).x

(***************************************************************************)
(* Shoe construction.                                                      *)
(***************************************************************************)
\* the three nested loops: num_decks times, rank 1..13, four suits each
ordered_shoe(decks) ==
    [k \in 1..(Max(decks, 0) * NumRanks * NumSuits) |->
        ((k - 1) % (NumRanks * NumSuits)) \div NumSuits + 1]

build_shoe(decks, s) == shuffle(ordered_shoe(decks), s)

(***************************************************************************)
(* Shoe simulator and batch runner.                                        *)
(***************************************************************************)
\* mutant: one card more than asked is burned
burn_pos_one_more(sh, burn) == Min(Len(sh), 0 + Max(0, burn) + 1)

\* mutant: the burn is not applied
burn_pos_unburned(sh, burn) == 0

\* burn_cards = max(0, int(burn_cards)); pos = min(len(shoe), pos + burn_cards)
burn_pos(sh, burn) == Min(Len(sh), 0 + Max(0, burn))

\* mutant: the loop asks for the four cards of the initial deal only
loop_cond_four(cap, hn, sh, p) ==
    /\ (cap = {} \/ \A m \in cap : hn <= m)
    /\ p + 4 <= Len(sh)

\* the while condition of simulate_shoe
loop_cond(cap, hn, sh, p) ==
    /\ (cap = {} \/ \A m \in cap : hn <= m)
    /\ p + WorstCaseHand <= Len(sh)

\* mutant: the hand number is not stamped
stamp_shoe_only(res, sid, hn) == [res EXCEPT !.shoe_id = sid]

\* res.shoe_id = shoe_id; res.hand_number = hand_number
stamp(res, sid, hn) == [res EXCEPT !.shoe_id = sid, !.hand_number = hn]

\* mutant: the shoe's hands are put in front of the flat list
extend_front(all, rs) == rs \o all

\* all_results.extend(shoe_results)
extend(all, rs) == all \o rs

Optional(S) == {{}} \cup {{n} : n \in S}

DeckCounts == 0..MaxDecks
\* burn counts for a shoe of the given deck count: negative, small, those
\* that leave one card fewer, as many, or one more than the loop asks for,
\* the whole shoe, and one card more than the shoe holds
BurnCounts(decks) ==
    LET len == decks * NumRanks * NumSuits
    IN (-1..MaxBurn) \cup
       {b \in {len - k : k \in (WorstCaseHand - 1)..(WorstCaseHand + 1)}
                \cup {len, len + 1} : b >= -1}
HandCaps == Optional(-1..MaxHands)
Seeds == Optional(0..MaxSeed)
Entropy == 0..MaxEntropy

Init ==
    /\ num_shoes \in 0..MaxShoes
    /\ num_decks \in DeckCounts
    /\ burn_cards \in BurnCounts(num_decks)
    /\ max_hands \in HandCaps
    /\ rng_seed \in Seeds
    /\ rng = 0
    /\ shoe_id = 0
    /\ seed = 0
    /\ all_results = <<>>
    /\ shoe = <<>>
    /\ pos = 0
    /\ hand_number = 1
    /\ results = <<>>
    /\ ret = [raised |-> FALSE, res |-> NoResult, pos |-> -1]
    /\ run = 1
    /\ first_output = <<>>
    /\ pc = "start"

\* main calls simulate_many_shoes: all_results = [], rng = random.Random(rng_seed)
CallSimulateManyShoes ==
    /\ pc = "start"
    /\ \E e \in Entropy : rng' = Random(rng_seed, e)
    /\ all_results' = <<>>
    /\ shoe_id' = 0
    /\ pc' = "for"
    /\ UNCHANGED <<num_shoes, num_decks, burn_cards, max_hands, rng_seed, seed,
                   shoe, pos, hand_number, results, ret, run, first_output>>

\* the for loop takes the next shoe_id, draws its seed and enters simulate_shoe,
\* which builds the shoe, burns, and reaches its while loop
ForNext ==
    /\ pc = "for"
    /\ shoe_id < num_shoes
    /\ shoe_id' = shoe_id + 1
    /\ seed' = randint(rng, 0, MaxChildSeed)
    /\ rng' = rng_step(rng)
    /\ \E e \in Entropy : shoe' = build_shoe(num_decks, Random({seed'}, e))
    /\ pos' = burn_pos(shoe', burn_cards)
    /\ results' = <<>>
    /\ hand_number' = 1
    /\ pc' = "while"
    /\ UNCHANGED <<num_shoes, num_decks, burn_cards, max_hands, rng_seed,
                   all_results, ret, run, first_output>>

\* one iteration of the while loop
WhileBody ==
    /\ pc = "while"
    /\ loop_cond(max_hands, hand_number, shoe, pos)
    /\ \E r \in {play_hand(shoe, pos)} :
          IF r.raised
          THEN /\ pc' = "error"
               /\ UNCHANGED <<pos, results, hand_number>>
          ELSE /\ pos' = r.pos
               /\ results' = Append(results, stamp(r.res, shoe_id, hand_number))
               /\ hand_number' = hand_number + 1
               /\ pc' = "while"
    /\ UNCHANGED <<num_shoes, num_decks, burn_cards, max_hands, rng_seed, rng,
                   shoe_id, seed, all_results, shoe, ret, run, first_output>>

\* the while condition fails: simulate_shoe returns results, which the caller
\* appends to all_results
WhileExit ==
    /\ pc = "while"
    /\ ~loop_cond(max_hands, hand_number, shoe, pos)
    /\ all_results' = extend(all_results, results)
    /\ pc' = "for"
    /\ UNCHANGED <<num_shoes, num_decks, burn_cards, max_hands, rng_seed, rng,
                   shoe_id, seed, shoe, pos, hand_number, results, ret, run,
                   first_output>>

\* the for loop is exhausted: simulate_many_shoes returns all_results
ForExit ==
    /\ pc = "for"
    /\ shoe_id >= num_shoes
    /\ pc' = "done"
    /\ UNCHANGED <<num_shoes, num_decks, burn_cards, max_hands, rng_seed, rng,
                   shoe_id, seed, all_results, shoe, pos, hand_number, results,
                   ret, run, first_output>>

\* the program is run a second time with the same arguments
RunAgain ==
    /\ pc = "done"
    /\ run = 1
    /\ run' = 2
    /\ first_output' = all_results
    /\ rng' = 0
    /\ shoe_id' = 0
    /\ seed' = 0
    /\ all_results' = <<>>
    /\ shoe' = <<>>
    /\ pos' = 0
    /\ hand_number' = 1
    /\ results' = <<>>
    /\ pc' = "start"
    /\ UNCHANGED <<num_shoes, num_decks, burn_cards, max_hands, rng_seed, ret>>

Next ==
    \/ CallSimulateManyShoes
    \/ ForNext
    \/ WhileBody
    \/ WhileExit
    \/ ForExit
    \/ RunAgain

Spec == Init /\ [][Next]_vars

\* One run of the program.  The program is sequential: whenever a statement
\* is enabled, it is executed.
NextOnce ==
    \/ CallSimulateManyShoes
    \/ ForNext
    \/ WhileBody
    \/ WhileExit
    \/ ForExit

SpecLive == Init /\ [][NextOnce]_vars /\ WF_vars(NextOnce)

(***************************************************************************)
(* SpecHand: play_hand called directly on a list of ranks.  The pos cards  *)
(* in front of the cursor are never read by the call; they are fixed       *)
(* (13, 12, ...).  The cards from the cursor on are every list of at most  *)
(* WorstCaseHand cards whose first card of each side and whose third cards *)
(* range over 1..MaxHandRank (every baccarat value 0..9) and whose second  *)
(* card of each side ranges over SecondRanks: every pair of two-card       *)
(* totals and every value of a third card occurs, with and without the     *)
(* sum passing 10.                                                         *)
(***************************************************************************)
HandRanks == 1..MaxHandRank

SecondRanks == {1, 2, 13}

CardChoices(i) == IF i \in {3, 4} THEN SecondRanks ELSE HandRanks

HandSegments ==
    UNION {{seg \in [1..n -> HandRanks \cup SecondRanks] :
               \A i \in 1..n : seg[i] \in CardChoices(i)} : n \in 0..WorstCaseHand}

Skipped(n) == [i \in 1..n |-> NumRanks - ((i - 1) % NumRanks)]

IdleBatch ==
    /\ num_shoes = 0
    /\ num_decks = 0
    /\ burn_cards = 0
    /\ max_hands = {}
    /\ rng_seed = {}
    /\ rng = 0
    /\ shoe_id = 0
    /\ seed = 0
    /\ all_results = <<>>
    /\ hand_number = 1
    /\ results = <<>>
    /\ run = 1
    /\ first_output = <<>>

InitHand ==
    /\ IdleBatch
    /\ pos \in 0..MaxPos
    /\ \E seg \in HandSegments : shoe = Skipped(pos) \o seg
    /\ ret = [raised |-> FALSE, res |-> NoResult, pos |-> -1]
    /\ pc = "play_hand"

PlayHandCall ==
    /\ pc = "play_hand"
    /\ LET r == play_hand(shoe, pos)
       IN /\ ret' = r
          /\ pc' = IF r.raised THEN "raised" ELSE "returned"
    /\ UNCHANGED <<num_shoes, num_decks, burn_cards, max_hands, rng_seed, rng,
                   shoe_id, seed, all_results, shoe, pos, hand_number, results,
                   run, first_output>>

NextHand == PlayHandCall

SpecHand == InitHand /\ [][NextHand]_vars

(***************************************************************************)
(* Properties.                                                             *)
(***************************************************************************)
CardsDealt(res) == Len(res.player_cards) + Len(res.banker_cards)

LastResult == results[Len(results)]

\* C1: for a deck count >= 1, whatever the burn count and the hand cap, a run
\* of simulate_shoe never raises the out-of-cards error, the cursor never
\* passes the end of the shoe, and the hand dealt last was started with at
\* least 6 cards remaining.
C1_NeverOutOfCards ==
    num_decks >= 1 =>
        /\ pc # "error"
        /\ pos >= 0
        /\ pos <= Len(shoe)
        /\ results # <<>> =>
               (pos - CardsDealt(LastResult)) + WorstCaseHand <= Len(shoe)

\* C1 witness: a hand of six cards was dealt from the last six cards of a shoe.
C1_SixCardHandEndsShoe ==
    /\ num_decks >= 1
    /\ pc = "while"
    /\ results # <<>>
    /\ pos = Len(shoe)
    /\ CardsDealt(LastResult) = WorstCaseHand

\* C2: in a returned non-natural hand in which Player drew a third card of
\* value P3, Banker (two-card total b) drew a third card exactly when
\* b <= 2, or b = 3 and P3 /= 8, or b = 4 and P3 in 2..7, or b = 5 and
\* P3 in 4..7, or b = 6 and P3 in {6, 7}.
C2_BankerTableau ==
    (pc = "returned" /\ ~ret.res.natural /\ Len(ret.res.player_cards) = 3) =>
        LET b == hand_total(SubSeq(ret.res.banker_cards, 1, 2))
            P3 == baccarat_value(ret.res.player_cards[3])
        IN (Len(ret.res.banker_cards) = 3) <=>
               \/ b <= 2
               \/ b = 3 /\ P3 # 8
               \/ b = 4 /\ P3 \in 2..7
               \/ b = 5 /\ P3 \in 4..7
               \/ b = 6 /\ P3 \in {6, 7}

\* C2 witness: Player [3, 2] draws a 6 and Banker, on a two-card total of 4,
\* draws a third card.
C2_BankerDrawsOnFour ==
    /\ pc = "returned"
    /\ ret.res.player_cards = <<3, 2, 6>>
    /\ hand_total(SubSeq(ret.res.banker_cards, 1, 2)) = 4
    /\ Len(ret.res.banker_cards) = 3

\* C3: a returned hand with natural = TRUE has exactly four cards, two on
\* each side, and a total of 8 or 9 on at least one side.
C3_NaturalFourCards ==
    (pc = "returned" /\ ret.res.natural) =>
        /\ Len(ret.res.player_cards) = 2
        /\ Len(ret.res.banker_cards) = 2
        /\ ret.pos - pos = 4
        /\ (ret.res.player_total \in {8, 9} \/ ret.res.banker_total \in {8, 9})

\* C3 witness: a natural on Banker's 8 alone, with more cards left in the shoe.
C3_BankerNatural ==
    /\ pc = "returned"
    /\ ret.res.natural
    /\ ret.res.banker_total = 8
    /\ ret.res.player_total \notin {8, 9}
    /\ Len(shoe) - pos = WorstCaseHand

\* C4: in a returned hand the winner is T exactly when the recorded totals are
\* equal, P exactly when Player's is higher, B exactly when Banker's is higher.
C4_WinnerByTotals ==
    pc = "returned" =>
        /\ (ret.res.winner = "T") <=> (ret.res.player_total = ret.res.banker_total)
        /\ (ret.res.winner = "P") <=> (ret.res.player_total > ret.res.banker_total)
        /\ (ret.res.winner = "B") <=> (ret.res.banker_total > ret.res.player_total)

\* C4 witness: a tie after both sides drew a third card.
C4_TieAfterDraws ==
    /\ pc = "returned"
    /\ ret.res.winner = "T"
    /\ CardsDealt(ret.res) = WorstCaseHand

\* C5: the i-th hand of a shoe's result list has hand_number i and the shoe's
\* id, also in the flat list no hand keeps a placeholder -1.
C5_HandNumbers ==
    /\ \A i \in 1..Len(results) :
          /\ results[i].hand_number = i
          /\ results[i].shoe_id = shoe_id
    /\ \A i \in 1..Len(all_results) :
          /\ all_results[i].hand_number >= 1
          /\ all_results[i].shoe_id >= 1

\* C5 witness: the second shoe returned at least three hands.
C5_SecondShoeReturned ==
    /\ pc = "for"
    /\ shoe_id = 2
    /\ Len(results) >= 3
    /\ Len(all_results) > Len(results)

\* C6 (as claimed): when simulate_shoe has returned, the number of hands does
\* not exceed a given cap, and if it is below the cap (or there is no cap)
\* fewer than 6 cards remain.
C6_StopsAtCapOrExhaustion ==
    (pc = "for" /\ shoe_id >= 1) =>
        /\ \A m \in max_hands : Len(results) <= m
        /\ (max_hands = {} \/ \E m \in max_hands : Len(results) < m) =>
               Len(shoe) - pos < WorstCaseHand

\* C6 for the hand caps a validating boundary would admit (none, or >= 0).
C6_StopsForValidCap ==
    (\A m \in max_hands : m >= 0) => C6_StopsAtCapOrExhaustion

\* C7: when fewer than 6 cards remain after the burn (in particular when the
\* burn count is at least the shoe length), simulate_shoe deals no hand and
\* raises nothing.
C7_BurnedOutShoeIsEmpty ==
    (shoe_id >= 1 /\ Len(shoe) - Min(Len(shoe), Max(0, burn_cards)) < WorstCaseHand) =>
        /\ results = <<>>
        /\ pc # "error"

\* C7 witness: one deck, 52 cards burned, simulate_shoe has returned [].
C7_FullDeckBurned ==
    /\ num_decks = 1
    /\ burn_cards = 52
    /\ Len(shoe) = 52
    /\ pc = "for"
    /\ shoe_id = 1
    /\ results = <<>>

BadConfig == num_decks <= 0 \/ \E m \in max_hands : m < 0

\* C8 (as claimed): a batch run with a non-positive deck count or a negative
\* hand cap builds no shoe and returns no result.
C8_BadConfigRejected ==
    BadConfig => (shoe_id = 0 /\ pc # "done")

\* simulate_shoe has just built and burned its shoe, no hand is dealt yet
JustBuilt == pc = "while" /\ hand_number = 1

\* the state of the master generator after n draws
RECURSIVE MasterAfter(_)
MasterAfter(n) ==
    IF n = 0 THEN Random(rng_seed, 0) ELSE rng_step(MasterAfter(n - 1))

\* C9: with a master seed given, the second run returns the list the first
\* run returned; the child seed of shoe i is the i-th draw of the generator
\* seeded by the master seed (one draw per shoe), and the shoe simulate_shoe
\* builds is the one determined by the child seed and the deck count.
C9_Reproducible ==
    rng_seed # {} =>
        /\ (pc = "done" /\ run = 2) => all_results = first_output
        /\ shoe_id >= 1 =>
              /\ seed = randint(MasterAfter(shoe_id - 1), 0, MaxChildSeed)
              /\ rng = MasterAfter(shoe_id)
        /\ JustBuilt => shoe = build_shoe(num_decks, Random({seed}, 0))

\* C9 witness: a seeded batch of two shoes has run twice and returned hands.
C9_SecondRunDone ==
    /\ rng_seed # {}
    /\ run = 2
    /\ pc = "done"
    /\ num_shoes = 2
    /\ Len(all_results) >= 4

RankCount(sh, r) == Cardinality({i \in 1..Len(sh) : sh[i] = r})

\* C10: for a deck count D >= 1 the shoe build_shoe returned has 52 * D
\* cards, each rank 1..13 exactly 4 * D times, and nothing else.
C10_ShoeComposition ==
    (num_decks >= 1 /\ JustBuilt) =>
        /\ Len(shoe) = 52 * num_decks
        /\ \A r \in 1..13 : RankCount(shoe, r) = 4 * num_decks
        /\ \A i \in 1..Len(shoe) : shoe[i] \in 1..13

\* C10 witness: a two-deck shoe was built, in another order than it was filled.
C10_TwoDeckShoeShuffled ==
    /\ num_decks = 2
    /\ JustBuilt
    /\ Len(shoe) = 104
    /\ shoe # ordered_shoe(2)

\* C11: along the flat list shoe_id never decreases, a hand that opens a new
\* shoe_id has hand_number 1 and every other hand has the hand_number of its
\* predecessor plus 1; when simulate_shoe has returned, the flat list ends
\* with that shoe's hands, in their order.
C11_FlatListInShoeOrder ==
    /\ \A i \in 1..Len(all_results) :
          IF i = 1 \/ all_results[i - 1].shoe_id # all_results[i].shoe_id
          THEN /\ all_results[i].hand_number = 1
               /\ i > 1 => all_results[i - 1].shoe_id < all_results[i].shoe_id
          ELSE all_results[i].hand_number = all_results[i - 1].hand_number + 1
    /\ (pc = "for" /\ shoe_id >= 1) =>
          /\ Len(all_results) >= Len(results)
          /\ SubSeq(all_results, Len(all_results) - Len(results) + 1,
                    Len(all_results)) = results

\* C11 witness: a batch of two shoes has returned, each shoe with at least
\* two hands in the flat list.
C11_TwoShoesConcatenated ==
    /\ pc = "done"
    /\ Len(all_results) >= 4
    /\ all_results[2].shoe_id = 1
    /\ all_results[Len(all_results) - 1].shoe_id = 2

\* C12: a returned call play_hand(shoe, pos) returns the cursor pos plus the
\* number of cards in the two recorded hands, which is 4, 5 or 6; on the
\* cards 8, 8, 1, 1 the call returns a natural tie and moves the cursor by 4.
C12_CursorAdvance ==
    /\ pc = "returned" =>
          /\ ret.pos - pos = CardsDealt(ret.res)
          /\ CardsDealt(ret.res) \in {4, 5, 6}
    /\ (pc # "play_hand" /\ SubSeq(shoe, pos + 1, Len(shoe)) = <<8, 8, 1, 1>>) =>
          /\ pc = "returned"
          /\ ret.res.player_cards = <<8, 1>>
          /\ ret.res.banker_cards = <<8, 1>>
          /\ ret.res.player_total = 9
          /\ ret.res.banker_total = 9
          /\ ret.res.natural
          /\ ret.res.winner = "T"
          /\ ret.pos = pos + 4

\* C12 witness: the shoe [8, 8, 1, 1] was dealt from cursor 0.
C12_NaturalTieScenario ==
    /\ pc = "returned"
    /\ pos = 0
    /\ shoe = <<8, 8, 1, 1>>
    /\ ret.pos = 4

(***************************************************************************)
(* The drawing rules, restated from the tableau for the properties below:  *)
(* c is the list of cards from the cursor on, in dealing order.            *)
(***************************************************************************)
Val(r) == IF r \in 1..9 THEN r ELSE 0

\* the two-card totals of the initial deal P1, B1, P2, B2
PlayerTwo(c) == (Val(c[1]) + Val(c[3])) % 10
BankerTwo(c) == (Val(c[2]) + Val(c[4])) % 10

NaturalDeal(c) == PlayerTwo(c) \in {8, 9} \/ BankerTwo(c) \in {8, 9}

PlayerThird(c) == ~NaturalDeal(c) /\ PlayerTwo(c) <= 5

BankerThird(c) ==
    /\ ~NaturalDeal(c)
    /\ IF PlayerThird(c)
       THEN \/ BankerTwo(c) <= 2
            \/ BankerTwo(c) = 3 /\ Val(c[5]) # 8
            \/ BankerTwo(c) = 4 /\ Val(c[5]) \in 2..7
            \/ BankerTwo(c) = 5 /\ Val(c[5]) \in 4..7
            \/ BankerTwo(c) = 6 /\ Val(c[5]) \in {6, 7}
       ELSE BankerTwo(c) <= 5

\* the cards from the cursor on, followed by six more: long enough for the
\* rules to be read off whatever the shoe holds
FromCursor == SubSeq(shoe, pos + 1, Len(shoe)) \o <<13, 13, 13, 13, 13, 13>>

\* the number of cards the hand at the cursor needs under the rules
CardsNeeded ==
    4 + (IF PlayerThird(FromCursor) THEN 1 ELSE 0)
      + (IF BankerThird(FromCursor) THEN 1 ELSE 0)

\* C13: a direct call play_hand(shoe, pos), pos in 0..len(shoe), raises the
\* out-of-cards error exactly when fewer cards remain than the hand needs
\* under the drawing rules; a raising call yields no HandResult and raises
\* with the cursor at len(shoe); a returning call leaves the cursor within
\* the shoe, so no index >= len(shoe) is read.
C13_RaisesExactlyWhenShort ==
    pc # "play_hand" =>
        /\ pos \in 0..Len(shoe)
        /\ (pc = "raised") <=> (Len(shoe) - pos < CardsNeeded)
        /\ pc = "raised" => (ret.raised /\ ret.res = NoResult /\ ret.pos = Len(shoe))
        /\ pc = "returned" =>
              /\ ~ret.raised
              /\ CardsDealt(ret.res) = CardsNeeded
              /\ ret.pos <= Len(shoe)

\* C13 witness: called at cursor 1 with five cards left, the hand needs a
\* sixth and the call raises.
C13_SixthCardMissing ==
    /\ pc = "raised"
    /\ pos = 1
    /\ Len(shoe) - pos = 5
    /\ CardsNeeded = 6

\* the sum of the values of a recorded hand of two or three cards
ValSum(cards) ==
    Val(cards[1]) + Val(cards[2]) + (IF Len(cards) = 3 THEN Val(cards[3]) ELSE 0)

\* C14: in every HandResult returned by play_hand, natural or not,
\* player_total and banker_total are in 0..9 and are the sum modulo 10 of
\* the values (1..9 as themselves, 10..13 as 0) of the recorded
\* player_cards and banker_cards, third card included.
C14_TotalsAreSumsModTen ==
    pc = "returned" =>
        /\ Len(ret.res.player_cards) \in {2, 3}
        /\ Len(ret.res.banker_cards) \in {2, 3}
        /\ ret.res.player_total \in 0..9
        /\ ret.res.banker_total \in 0..9
        /\ ret.res.player_total = ValSum(ret.res.player_cards) % 10
        /\ ret.res.banker_total = ValSum(ret.res.banker_cards) % 10

\* C14 witness: Player holds 5 and a king, draws a 9: the sum 14 wraps to 4.
C14_ThreeCardTotalWraps ==
    /\ pc = "returned"
    /\ ret.res.player_cards = <<5, 13, 9>>
    /\ ret.res.player_total = 4

\* the two-card totals of a recorded hand
FirstTwo(cards) == (Val(cards[1]) + Val(cards[2])) % 10

\* C15: Player receives a third card if and only if neither initial
\* two-card total is 8 or 9 and Player's two-card total is <= 5; otherwise
\* Player's hand stays at exactly two cards.
C15_PlayerThirdCard ==
    pc = "returned" =>
        LET p2 == FirstTwo(ret.res.player_cards)
            b2 == FirstTwo(ret.res.banker_cards)
        IN IF p2 \notin {8, 9} /\ b2 \notin {8, 9} /\ p2 <= 5
           THEN Len(ret.res.player_cards) = 3
           ELSE Len(ret.res.player_cards) = 2

\* C15 witness: Player holds 5 against a Banker 7 and draws.
C15_PlayerDrawsOnFive ==
    /\ pc = "returned"
    /\ FirstTwo(ret.res.player_cards) = 5
    /\ FirstTwo(ret.res.banker_cards) = 7
    /\ Len(ret.res.player_cards) = 3

\* C16: in a non-natural hand in which Player stood (two-card total 6 or
\* 7), Banker draws a third card if and only if the total of Banker's first
\* two cards is <= 5.
C16_BankerAfterStand ==
    pc = "returned" =>
        LET p2 == FirstTwo(ret.res.player_cards)
            b2 == FirstTwo(ret.res.banker_cards)
        IN (p2 \in {6, 7} /\ b2 \notin {8, 9}) =>
              /\ ~ret.res.natural
              /\ Len(ret.res.player_cards) = 2
              /\ IF b2 <= 5
                 THEN /\ Len(ret.res.banker_cards) = 3
                      /\ ret.res.banker_cards[3] = shoe[pos + 5]
                 ELSE Len(ret.res.banker_cards) = 2

\* C16 witness: Player stands on 6, Banker holds 5 and draws.
C16_BankerDrawsOnFive ==
    /\ pc = "returned"
    /\ FirstTwo(ret.res.player_cards) = 6
    /\ FirstTwo(ret.res.banker_cards) = 5
    /\ Len(ret.res.player_cards) = 2
    /\ Len(ret.res.banker_cards) = 3

\* C17: play_hand(shoe, pos) deals strictly forward: Player gets shoe[pos]
\* and shoe[pos+2], Banker shoe[pos+1] and shoe[pos+3]; Player's third card,
\* if any, is shoe[pos+4]; Banker's third card, if any, is the card after
\* Player's decision: shoe[pos+5] if Player drew, shoe[pos+4] if Player
\* stood.  (Python index i is index i + 1 of the sequence.)
C17_DealOrder ==
    pc = "returned" =>
        LET p == ret.res.player_cards
            b == ret.res.banker_cards
        IN /\ p[1] = shoe[pos + 1]
           /\ b[1] = shoe[pos + 2]
           /\ p[2] = shoe[pos + 3]
           /\ b[2] = shoe[pos + 4]
           /\ Len(p) = 3 => p[3] = shoe[pos + 5]
           /\ Len(b) = 3 => b[3] = shoe[pos + (IF Len(p) = 3 THEN 6 ELSE 5)]
           /\ ret.pos = pos + Len(p) + Len(b)

\* C17 witness: a six-card hand from cursor 1 whose six cards all differ.
C17_SixDistinctCards ==
    /\ pc = "returned"
    /\ pos = 1
    /\ Len(ret.res.player_cards) = 3
    /\ Len(ret.res.banker_cards) = 3
    /\ Cardinality({shoe[i] : i \in 2..7}) = 6

\* C19: in every hand returned by play_hand, natural is true if and only
\* if at least one two-card total of the initial deal is 8 or 9; so a hand
\* with natural false and four cards dealt has both totals in {6, 7}, and a
\* hand with a third card on either side has natural false, even when its
\* final total is 8 or 9.
C19_NaturalIffInitialEightOrNine ==
    pc = "returned" =>
        /\ ret.res.natural <=> NaturalDeal(FromCursor)
        /\ (~ret.res.natural /\ CardsDealt(ret.res) = 4) =>
              /\ ret.res.player_total \in {6, 7}
              /\ ret.res.banker_total \in {6, 7}
        /\ CardsDealt(ret.res) > 4 => ~ret.res.natural

\* C19 witness: Player reaches 9 with a third card; the hand is no natural.
C19_NineByThirdCard ==
    /\ pc = "returned"
    /\ Len(ret.res.player_cards) = 3
    /\ ret.res.player_total = 9
    /\ ~ret.res.natural

\* the cards of one hand in the order they were dealt
HandCards(res) ==
    <<res.player_cards[1], res.banker_cards[1],
      res.player_cards[2], res.banker_cards[2]>>
    \o SubSeq(res.player_cards, 3, Len(res.player_cards))
    \o SubSeq(res.banker_cards, 3, Len(res.banker_cards))

\* the cards of the first n hands of rs, hand after hand
RECURSIVE CardsOfHands(_, _)
CardsOfHands(rs, n) ==
    IF n = 0 THEN <<>> ELSE CardsOfHands(rs, n - 1) \o HandCards(rs[n])

\* the index at which the first hand of a shoe starts
FirstHandStart == Min(Max(burn_cards, 0), Len(shoe))

\* the hands dealt so far from the current shoe are, end to end, the cards
\* of the shoe from the first hand's start up to the cursor
HandsAreShoeSegment ==
    pc \in {"while", "for", "done"} =>
        /\ FirstHandStart <= pos
        /\ pos <= Len(shoe)
        /\ CardsOfHands(results, Len(results))
              = SubSeq(shoe, FirstHandStart + 1, pos)

\* C18: within one simulate_shoe run the shoe is not modified after it is
\* built, and the hands consume disjoint, contiguous, in-order segments of
\* it: the first hand starts at index min(max(burn, 0), len(shoe)) and each
\* later hand at the cursor the previous hand returned, so no card is used
\* twice, none between hands is skipped, and no burned card is in a hand.
C18_ShoeConsumedInOrder ==
    /\ []HandsAreShoeSegment
    /\ [][pc = "while" => shoe' = shoe]_vars

\* C18 witness: after one burned card, three hands have been dealt from a
\* shoe, the first of them starting at index 1.
C18_ThreeHandsAfterBurn ==
    /\ pc = "while"
    /\ burn_cards = 1
    /\ Len(results) = 3
    /\ results[1].player_cards[1] = shoe[2]
    /\ pos >= 13

\* at most floor((len(shoe) - burned) / 4) hands are dealt from a shoe
HandsBounded ==
    pc \in {"while", "for", "done"} =>
        Len(results) * 4 <= Len(shoe) - FirstHandStart

\* a pass through the loop body deals one hand and moves the cursor forward
\* by at least 4
HandAdvancesCursor ==
    (pc = "while" /\ pc' = "while") =>
        /\ pos' >= pos + 4
        /\ Len(results') = Len(results) + 1

\* C20: every run of simulate_shoe terminates, with or without a hand cap:
\* each dealt hand advances the cursor by at least 4, at most
\* floor((len(shoe) - burned) / 4) hands are dealt, the loop is left, and
\* simulate_many_shoes over its finite shoe count runs to completion.
C20_BatchTerminates ==
    /\ []HandsBounded
    /\ [][HandAdvancesCursor]_vars
    /\ (pc = "while") ~> (pc = "for")
    /\ (pc = "start") ~> (pc = "done")

\* C20 witness: a batch of two uncapped shoes has run to completion, each
\* shoe dealt to exhaustion.
C20_UncappedBatchDone ==
    /\ pc = "done"
    /\ max_hands = {}
    /\ num_shoes = 2
    /\ shoe_id = 2
    /\ Len(results) >= 4
    /\ Len(all_results) >= 8

=============================================================================
